---- MODULE Spec2Model ----
(***************************************************************************)
(* AudioDecoderCpu (dali/operators/decoder/audio/audio_decoder_op.cc).     *)
(*                                                                         *)
(* One operator instance, constructed with (dtype, downmix, sample_rate    *)
(* given or not), is called on a batch (Spec) or on batch after batch      *)
(* (SpecSeq).  A call is SetupImpl (the sequential plan) followed by       *)
(* RunImpl / DecodeBatch (one unit of work per sample on the thread pool,  *)
(* joined by RunAll).  The bodies of                                       *)
(* SetupImpl, DecodeSample, DecodeBatch and RunImpl are cut at the places  *)
(* where another thread can observe them or where they can throw.          *)
(***************************************************************************)
EXTENDS Integers, Sequences, FiniteSets, TLC

\* ---------------------------------------------------------------- bounds
MaxBatch == 2
NumThreads == 2

Threads == 1..NumThreads

\* ------------------------------------------------------------ data types
SupportedTypes == {"INT16", "INT32", "FLOAT"}
OutputTypes == {"INT16", "FLOAT", "UINT8"}
TargetRates == {0, 2}
DefaultSampleRate == 0

NoLabel == "<none>"
NoMeta == [length |-> 0, sample_rate |-> 0, channels |-> 0]
NoDecoder == [type |-> "null", opened |-> NoLabel]
Unwritten == [by |-> 0, val |-> -1]

\* The encoded inputs a batch is drawn from: a label (GetSourceInfo), the
\* number of dimensions of the raw tensor, whether the header / the payload
\* is well formed, and what Open reports for it.
InputSamples ==
  { [label |-> "a.wav", ndim |-> 1, header_ok |-> TRUE, payload_ok |-> TRUE,
     length |-> 2, sample_rate |-> 2, channels |-> 1],
    [label |-> "b.wav", ndim |-> 1, header_ok |-> TRUE, payload_ok |-> TRUE,
     length |-> 1, sample_rate |-> 1, channels |-> 2],
    [label |-> "c.wav", ndim |-> 1, header_ok |-> FALSE, payload_ok |-> FALSE,
     length |-> 0, sample_rate |-> 0, channels |-> 0],
    [label |-> "d.wav", ndim |-> 1, header_ok |-> TRUE, payload_ok |-> FALSE,
     length |-> 2, sample_rate |-> 2, channels |-> 1],
    [label |-> "e.raw", ndim |-> 2, header_ok |-> TRUE, payload_ok |-> TRUE,
     length |-> 2, sample_rate |-> 2, channels |-> 1] }

InputTypes == {"UINT8", "INT16"}

Batches == UNION { [1..n -> InputSamples] : n \in 1..MaxBatch }

\* A resize that only grows: if (v.size() < n) v.resize(n)
Resize_GrowOnly(v, n, fill) ==
  [k \in 1..(IF n <= Len(v) THEN Len(v) ELSE n) |-> IF k <= Len(v) THEN v[k] ELSE fill]

\* std::vector::resize: keeps the common prefix, value-initialises the rest.
Resize(v, n, fill) == [k \in 1..n |-> IF k <= Len(v) THEN v[k] ELSE fill]

SizeOf(t) == CASE t = "INT16" -> 2 [] t = "INT32" -> 4 [] t = "FLOAT" -> 4 [] OTHER -> 1

VARIABLES
  output_type_, downmix_, use_resampling_,     \* constructor arguments
  input, input_type,                           \* the workspace of the call
  pc, idx,                                     \* the calling thread
  target_sample_rates_, decoders_, sample_meta_, files_names_, decode_type_,
  shape_data, shape_rate, output_desc,         \* the planned shapes
  decoded_output, sample_rate_output,          \* the two outputs
  scratch_decoder_, scratch_resampler_,
  work, started, worker, tl_errors,            \* the thread pool
  result,                                      \* how the call ended
  opened, created, submitted, ran, failed,     \* per-call history
  last_size                                    \* batch size of the call before

cfgvars == <<output_type_, downmix_, use_resampling_>>
wsvars == <<input, input_type>>
planvars == <<target_sample_rates_, decoders_, sample_meta_, files_names_, decode_type_,
              shape_data, shape_rate, output_desc>>
outvars == <<decoded_output, sample_rate_output>>
scratchvars == <<scratch_decoder_, scratch_resampler_>>
poolvars == <<work, started, worker, tl_errors>>
histvars == <<opened, created, submitted, ran, failed>>

vars == <<cfgvars, wsvars, pc, idx, planvars, outvars, scratchvars, poolvars, result, histvars,
          last_size>>

batch_size == Len(input)

Error(what, label, origin) == [what |-> what, label |-> label, origin |-> origin]
NoResult == Error("none", NoLabel, 0)
Ok == Error("ok", NoLabel, 0)

IdleWorker ==
  [pc |-> "idle", unit |-> 0, slot |-> 0, exc |-> "none",
   resample |-> FALSE, dec_sz |-> 0, res_sz |-> 0]

Init ==
  /\ output_type_ \in OutputTypes
  /\ downmix_ \in BOOLEAN
  /\ use_resampling_ \in BOOLEAN
  /\ input = <<>> /\ input_type = "UINT8"
  /\ pc = "idle" /\ idx = 1
  /\ target_sample_rates_ = <<>>
  /\ decoders_ = <<>> /\ sample_meta_ = <<>> /\ files_names_ = <<>>
  /\ decode_type_ = "NONE"
  /\ shape_data = <<>> /\ shape_rate = <<>> /\ output_desc = <<>>
  /\ decoded_output = <<>> /\ sample_rate_output = <<>>
  /\ scratch_decoder_ = <<>> /\ scratch_resampler_ = <<>>
  /\ work = {} /\ started = FALSE
  /\ worker = [w \in Threads |-> IdleWorker]
  /\ tl_errors = {}
  /\ result = NoResult
  /\ opened = <<>> /\ created = 0 /\ submitted = <<>> /\ ran = <<>> /\ failed = {}
  /\ last_size = 0

\* ------------------------------------------------------------- helpers
\* round(length * target / native), as an integer
ResampledLength(length, target, native) ==
  (2 * length * target + native) \div (2 * native)

\* DecodedAudioShape(meta, target_sample_rate, downmix): a target that is not
\* positive is the "no resampling" sentinel.
DecodedAudioShape(meta, target, downmix) ==
  LET len == IF target > 0
             THEN ResampledLength(meta.length, target, meta.sample_rate)
             ELSE meta.length
  IN IF downmix THEN <<len>> ELSE <<len, meta.channels>>

\* GetPerSampleArgument("sample_rate"): the argument's values when it was
\* given, its default for every sample when it was not.
SampleRateArgs(n) ==
  IF use_resampling_ THEN [1..n -> TargetRates] ELSE {[k \in 1..n |-> DefaultSampleRate]}

\* GenericAudioDecoder::Open on a header it accepts: the metadata
Open(sample) ==
  [length |-> sample.length, sample_rate |-> sample.sample_rate, channels |-> sample.channels]

ShapeList_OneMore(n, shape) == [k \in 1..(n + 1) |-> shape]

\* TensorListShape<>(n, dim): n samples of an all-zero shape
ShapeList(n, shape) == [k \in 1..n |-> shape]

\* decode_type_ of SetupImpl
DecodeType == IF use_resampling_ /\ ~downmix_ THEN "FLOAT" ELSE output_type_

\* SetupImpl without the DALI_ENFORCE of line 60
ValidationError_NoTypeCheck(b, t) ==
  IF \E k \in 1..Len(b) : b[k].ndim # 1 THEN "InputShape" ELSE "none"

\* SetupImpl, lines 57-60: the two DALI_ENFORCEs on the input
ValidationError(b, t) ==
  IF \E k \in 1..Len(b) : b[k].ndim # 1 THEN "InputShape"
  ELSE IF t # "UINT8" THEN "InputType"
  ELSE "none"

\* ------------------------------------------------------ the batch call
\* The executor hands the operator a workspace (a batch of raw inputs, the
\* per-sample sample_rate argument, outputs that are not allocated yet) and
\* calls SetupImpl.  Lines 53-63: the argument is read, the input is
\* validated and the three per-sample vectors are resized.
SetupImpl ==
  /\ pc = "idle"
  /\ \E b \in Batches, t \in InputTypes : \E r \in SampleRateArgs(Len(b)) :
       /\ input' = b
       /\ input_type' = t
       /\ target_sample_rates_' = r
       /\ opened' = [k \in 1..Len(b) |-> 0]
       /\ submitted' = [k \in 1..Len(b) |-> 0]
       /\ ran' = [k \in 1..Len(b) |-> 0]
       /\ IF ValidationError(b, t) # "none"
          THEN /\ pc' = "done"
               /\ result' = Error(ValidationError(b, t), NoLabel, 0)
               /\ UNCHANGED <<decoders_, sample_meta_, files_names_>>
          ELSE /\ pc' = "setup_decoders"
               /\ decoders_' = Resize(decoders_, Len(b), NoDecoder)
               /\ sample_meta_' = Resize(sample_meta_, Len(b), NoMeta)
               /\ files_names_' = Resize(files_names_, Len(b), NoLabel)
               /\ UNCHANGED result
  /\ UNCHANGED <<cfgvars, idx, decode_type_, shape_data, shape_rate, output_desc,
                 outvars, scratchvars, poolvars, created, failed, last_size>>

\* The call is over: its workspace and the locals of SetupImpl are gone, the
\* members of the operator stay.
Return ==
  /\ pc = "done"
  /\ pc' = "idle" /\ idx' = 1
  /\ input' = <<>> /\ input_type' = "UINT8"
  /\ result' = NoResult
  /\ decoded_output' = <<>> /\ sample_rate_output' = <<>>
  /\ output_desc' = <<>> /\ shape_data' = <<>> /\ shape_rate' = <<>>
  /\ opened' = <<>> /\ created' = 0 /\ submitted' = <<>> /\ ran' = <<>> /\ failed' = {}
  /\ last_size' = batch_size
  /\ UNCHANGED <<cfgvars, target_sample_rates_, decoders_, sample_meta_, files_names_,
                 decode_type_, scratchvars, poolvars>>

\* SetupImpl, lines 65-77: decode_type_ is chosen, one decoder per sample is
\* created, the shapes are sized for the batch.
SetupDecoders ==
  /\ pc = "setup_decoders"
  /\ decode_type_' = DecodeType
  /\ IF decode_type_' \notin SupportedTypes
     THEN /\ pc' = "done"
          /\ result' = Error("UnsupportedType", NoLabel, 0)
          /\ UNCHANGED <<decoders_, shape_data, shape_rate, idx, created>>
     ELSE /\ pc' = "setup_open" /\ idx' = 1
          /\ created' = created + batch_size
          /\ decoders_' = [k \in 1..batch_size |-> [type |-> decode_type_', opened |-> NoLabel]]
          /\ shape_rate' = ShapeList(batch_size, <<0>>)
          /\ shape_data' = ShapeList(batch_size, IF downmix_ THEN <<0>> ELSE <<0, 0>>)
          /\ UNCHANGED result
  /\ UNCHANGED <<cfgvars, wsvars, target_sample_rates_, sample_meta_, files_names_,
                 output_desc, outvars, scratchvars, poolvars, opened, submitted, ran, failed, last_size>>

\* SetupImpl, lines 79-89, one iteration: Open, the metadata, the shapes and
\* the source label of sample idx.  Open throws on a header it rejects.
SetupOpen ==
  /\ pc = "setup_open"
  /\ idx <= batch_size
  /\ opened' = [opened EXCEPT ![idx] = @ + 1]
  /\ IF ~input[idx].header_ok
     THEN /\ pc' = "done"
          /\ result' = Error("Open", NoLabel, idx)
          /\ UNCHANGED <<decoders_, sample_meta_, files_names_, shape_data, shape_rate, idx>>
     ELSE LET meta == Open(input[idx])
          IN /\ decoders_' = [decoders_ EXCEPT ![idx].opened = input[idx].label]
             /\ sample_meta_' = [sample_meta_ EXCEPT ![idx] = meta]
             /\ shape_data' = [shape_data EXCEPT ![idx] =
                                 DecodedAudioShape(meta,
                                   IF use_resampling_ THEN target_sample_rates_[idx] ELSE -1,
                                   downmix_)]
             /\ shape_rate' = [shape_rate EXCEPT ![idx] = <<1>>]
             /\ files_names_' = [files_names_ EXCEPT ![idx] = input[idx].label]
             /\ idx' = idx + 1
             /\ UNCHANGED <<pc, result>>
  /\ UNCHANGED <<cfgvars, wsvars, target_sample_rates_, decode_type_, output_desc,
                 outvars, scratchvars, poolvars, created, submitted, ran, failed, last_size>>

\* SetupImpl with `i < batch_size - 1` as the bound of the loop of line 79
SetupFinish_ShortLoop ==
  /\ pc = "setup_open"
  /\ idx >= batch_size
  /\ output_desc' = <<[shape |-> shape_data, type |-> output_type_],
                      [shape |-> shape_rate, type |-> "FLOAT"]>>
  /\ decoded_output' = [k \in 1..Len(shape_data) |-> Unwritten]
  /\ sample_rate_output' = [k \in 1..Len(shape_rate) |-> Unwritten]
  /\ pc' = "run"
  /\ UNCHANGED <<cfgvars, wsvars, idx, target_sample_rates_, decoders_, sample_meta_,
                 files_names_, decode_type_, shape_data, shape_rate, scratchvars,
                 poolvars, result, histvars, last_size>>

\* SetupImpl, lines 91-93: output_desc is filled and SetupImpl returns true;
\* the executor then allocates both outputs from output_desc.
SetupFinish ==
  /\ pc = "setup_open"
  /\ idx > batch_size
  /\ output_desc' = <<[shape |-> shape_data, type |-> output_type_],
                      [shape |-> shape_rate, type |-> "FLOAT"]>>
  /\ decoded_output' = [k \in 1..Len(shape_data) |-> Unwritten]
  /\ sample_rate_output' = [k \in 1..Len(shape_rate) |-> Unwritten]
  /\ pc' = "run"
  /\ UNCHANGED <<cfgvars, wsvars, idx, target_sample_rates_, decoders_, sample_meta_,
                 files_names_, decode_type_, shape_data, shape_rate, scratchvars,
                 poolvars, result, histvars, last_size>>

\* RunImpl, lines 157-163, and the head of DecodeBatch, lines 132-138.
RunImpl ==
  /\ pc = "run"
  /\ IF output_type_ \notin SupportedTypes \/ decode_type_ \notin SupportedTypes
     THEN /\ pc' = "done"
          /\ result' = Error("UnsupportedType", NoLabel, 0)
          /\ UNCHANGED <<scratchvars, idx>>
     ELSE /\ pc' = "add_work" /\ idx' = 1
          /\ scratch_decoder_' = Resize(scratch_decoder_, NumThreads, 0)
          /\ scratch_resampler_' = Resize(scratch_resampler_, NumThreads, 0)
          /\ UNCHANGED result
  /\ UNCHANGED <<cfgvars, wsvars, planvars, outvars, poolvars, histvars, last_size>>

\* DecodeBatch with `i += 2` in the loop of line 140
AddWork_Stride ==
  /\ pc = "add_work"
  /\ idx <= Len(decoded_output)
  /\ work' = work \cup {idx}
  /\ submitted' = [submitted EXCEPT ![idx] = @ + 1]
  /\ idx' = idx + 2
  /\ UNCHANGED <<cfgvars, wsvars, pc, planvars, outvars, scratchvars, started, worker,
                 tl_errors, result, opened, created, ran, failed, last_size>>

\* DecodeBatch, lines 140-151, one iteration: tp.AddWork of the unit of
\* sample idx.
AddWork ==
  /\ pc = "add_work"
  /\ idx <= Len(decoded_output)
  /\ work' = work \cup {idx}
  /\ submitted' = [submitted EXCEPT ![idx] = @ + 1]
  /\ idx' = idx + 1
  /\ UNCHANGED <<cfgvars, wsvars, pc, planvars, outvars, scratchvars, started, worker,
                 tl_errors, result, opened, created, ran, failed, last_size>>

\* DecodeBatch with tp.RunAll() inside the loop of line 140
RunAll_InLoop ==
  /\ pc = "add_work"
  /\ idx > 1
  /\ started' = TRUE
  /\ pc' = "join"
  /\ UNCHANGED <<cfgvars, wsvars, idx, planvars, outvars, scratchvars, work, worker,
                 tl_errors, result, histvars, last_size>>

\* DecodeBatch, line 153: tp.RunAll() starts the pool ...
RunAll ==
  /\ pc = "add_work"
  /\ idx > Len(decoded_output)
  /\ started' = TRUE
  /\ pc' = "join"
  /\ UNCHANGED <<cfgvars, wsvars, idx, planvars, outvars, scratchvars, work, worker,
                 tl_errors, result, histvars, last_size>>

\* ... and waits until every unit has finished; an error a worker recorded is
\* thrown to the caller.
Join ==
  /\ pc = "join"
  /\ work = {}
  /\ \A w \in Threads : worker[w].pc = "idle"
  /\ started' = FALSE
  /\ IF tl_errors = {}
     THEN result' = Ok
     ELSE \E e \in tl_errors : result' = e
  /\ tl_errors' = {}
  /\ pc' = "done"
  /\ UNCHANGED <<cfgvars, wsvars, idx, planvars, outvars, scratchvars, work, worker,
                 histvars, last_size>>

\* --------------------------------------------------- one unit of work
\* DecodeSample, lines 100-114
TargetSr(i) ==
  IF use_resampling_ THEN target_sample_rates_[i] ELSE sample_meta_[i].sample_rate
ShouldResample(i) == TargetSr(i) # sample_meta_[i].sample_rate
ShouldDownmix(i) == sample_meta_[i].channels > 1 /\ downmix_
DecodeScratchSz_NoConvert(i) ==
  IF ShouldResample(i) \/ ShouldDownmix(i)
  THEN sample_meta_[i].length * sample_meta_[i].channels
  ELSE 0

DecodeScratchSz(i) ==
  IF ShouldResample(i) \/ ShouldDownmix(i) \/ output_type_ # decode_type_
  THEN sample_meta_[i].length * sample_meta_[i].channels
  ELSE 0
OutChannels(i) == IF ShouldDownmix(i) THEN 1 ELSE sample_meta_[i].channels
ResampleScratchSz_AllChannels(i) ==
  IF ShouldResample(i) THEN sample_meta_[i].length * sample_meta_[i].channels ELSE 0

ResampleScratchSz(i) ==
  IF ShouldResample(i) THEN sample_meta_[i].length * OutChannels(i) ELSE 0

DecodeScratchBytes_Elements(i) == DecodeScratchSz(i)

\* DecodeSample, line 117: the size the decode scratch buffer is resized to
DecodeScratchBytes(i) == DecodeScratchSz(i) * SizeOf(decode_type_)

\* DecodeSample with scratch_decoder_[0] and scratch_resampler_[0]
ScratchSlot_First(thread_idx, sample_idx) == 1

\* DecodeSample, lines 116 and 119: the scratch slot a unit uses
ScratchSlot(thread_idx, sample_idx) == thread_idx

\* DecodeBatch with decoded_output[0] in line 143
OutputRegion_First(i) == 1

\* DecodeBatch, line 143: the output region handed to the unit of sample i
OutputRegion(i) == i

\* DecodeBatch, line 144: the sampling-rate slot the unit of sample i writes
RateSlot(i) == i

\* DecodeBatch writing sample_meta_[i].sample_rate whatever use_resampling_ is
ReportedRate_Native(i) == sample_meta_[i].sample_rate

\* DecodeBatch, lines 144-146: the value written there
ReportedRate(i) ==
  IF use_resampling_ THEN target_sample_rates_[i] ELSE sample_meta_[i].sample_rate

\* The encoded bytes a decoder was opened on
FileOf(label) == CHOOSE s \in InputSamples : s.label = label

\* DecodeAudio: the number of frames it produces
DecodedFrames(i) ==
  IF ShouldResample(i)
  THEN ResampledLength(sample_meta_[i].length, TargetSr(i), sample_meta_[i].sample_rate)
  ELSE sample_meta_[i].length

\* A worker takes a unit from the pool and runs the lambda of DecodeBatch up
\* to the call of DecodeAudio: DecodeSample, lines 100-120.  A resize that
\* grows a scratch buffer allocates and can throw std::bad_alloc.
DecodeSample(w) ==
  /\ started
  /\ worker[w].pc = "idle"
  /\ \E i \in work :
       LET slot == ScratchSlot(w, i)
           dec == DecodeScratchBytes(i)
           res == ResampleScratchSz(i)
           args == [resample |-> ShouldResample(i), dec_sz |-> DecodeScratchSz(i),
                    res_sz |-> ResampleScratchSz(i)]
           running == [pc |-> "audio", unit |-> i, slot |-> slot, exc |-> "none"] @@ args
           thrown == [pc |-> "catch", unit |-> i, slot |-> slot, exc |-> "bad_alloc"] @@ args
       IN /\ work' = work \ {i}
          /\ ran' = [ran EXCEPT ![i] = @ + 1]
          /\ \/ /\ scratch_decoder_' = [scratch_decoder_ EXCEPT ![slot] = dec]
                /\ scratch_resampler_' = [scratch_resampler_ EXCEPT ![slot] = res]
                /\ worker' = [worker EXCEPT ![w] = running]
                /\ UNCHANGED failed
             \/ /\ dec > scratch_decoder_[slot]
                /\ UNCHANGED scratchvars
                /\ worker' = [worker EXCEPT ![w] = thrown]
                /\ failed' = failed \cup {i}
             \/ /\ res > scratch_resampler_[slot]
                /\ scratch_decoder_' = [scratch_decoder_ EXCEPT ![slot] = dec]
                /\ UNCHANGED scratch_resampler_
                /\ worker' = [worker EXCEPT ![w] = thrown]
                /\ failed' = failed \cup {i}
  /\ UNCHANGED <<cfgvars, wsvars, pc, idx, planvars, outvars, started, tl_errors, result,
                 opened, created, submitted, last_size>>

\* DecodeBatch with the rate assignment of lines 144-146 placed ahead of the
\* decode: the rate slot is written whether DecodeAudio throws or not
DecodeAudio_RateFirst(w) ==
  /\ worker[w].pc = "audio"
  /\ LET i == worker[w].unit
     IN /\ sample_rate_output' = [sample_rate_output EXCEPT ![RateSlot(i)] =
                                    [by |-> i, val |-> ReportedRate(i)]]
        /\ IF FileOf(decoders_[i].opened).payload_ok
           THEN /\ decoded_output' = [decoded_output EXCEPT ![OutputRegion(i)] =
                                        [by |-> i, val |-> DecodedFrames(i)]]
                /\ worker' = [worker EXCEPT ![w].pc = "rate"]
                /\ UNCHANGED failed
           ELSE /\ worker' = [worker EXCEPT ![w].pc = "catch", ![w].exc = "DALIException"]
                /\ failed' = failed \cup {i}
                /\ UNCHANGED decoded_output
  /\ UNCHANGED <<cfgvars, wsvars, pc, idx, planvars, scratchvars, work,
                 started, tl_errors, result, opened, created, submitted, ran, last_size>>

\* DecodeSample, lines 122-127: DecodeAudio decodes the bytes decoders_[i] was
\* opened on into the output region, through the scratch buffers of the slot;
\* it throws a DALIException on a payload it rejects.
DecodeAudio(w) ==
  /\ worker[w].pc = "audio"
  /\ LET i == worker[w].unit
     IN IF FileOf(decoders_[i].opened).payload_ok
        THEN /\ decoded_output' = [decoded_output EXCEPT ![OutputRegion(i)] =
                                     [by |-> i, val |-> DecodedFrames(i)]]
             /\ worker' = [worker EXCEPT ![w].pc = "rate"]
             /\ UNCHANGED failed
        ELSE /\ worker' = [worker EXCEPT ![w].pc = "catch", ![w].exc = "DALIException"]
             /\ failed' = failed \cup {i}
             /\ UNCHANGED decoded_output
  /\ UNCHANGED <<cfgvars, wsvars, pc, idx, planvars, sample_rate_output, scratchvars, work,
                 started, tl_errors, result, opened, created, submitted, ran, last_size>>

\* A unit that also stores the reported rate through its meta reference
WriteSampleRate_StoresRate(w) ==
  /\ worker[w].pc = "rate"
  /\ LET i == worker[w].unit
     IN /\ sample_rate_output' = [sample_rate_output EXCEPT ![RateSlot(i)] =
                                    [by |-> i, val |-> ReportedRate(i)]]
        /\ sample_meta_' = [sample_meta_ EXCEPT ![i].sample_rate = ReportedRate(i)]
  /\ worker' = [worker EXCEPT ![w] = IdleWorker]
  /\ UNCHANGED <<cfgvars, wsvars, pc, idx, target_sample_rates_, decoders_, files_names_,
                 decode_type_, shape_data, shape_rate, output_desc, decoded_output,
                 scratchvars, work, started, tl_errors, result, histvars, last_size>>

\* DecodeBatch, lines 144-146: the sampling rate of the sample is written and
\* the unit ends.
WriteSampleRate(w) ==
  /\ worker[w].pc = "rate"
  /\ LET i == worker[w].unit
     IN sample_rate_output' = [sample_rate_output EXCEPT ![RateSlot(i)] =
                                 [by |-> i, val |-> ReportedRate(i)]]
  /\ worker' = [worker EXCEPT ![w] = IdleWorker]
  /\ UNCHANGED <<cfgvars, wsvars, pc, idx, planvars, decoded_output, scratchvars, work,
                 started, tl_errors, result, histvars, last_size>>

\* DecodeBatch with a handler that does not rethrow: catch (...) {}
CatchUnit_Swallow(w) ==
  /\ worker[w].pc = "catch"
  /\ worker' = [worker EXCEPT ![w] = IdleWorker]
  /\ UNCHANGED <<cfgvars, wsvars, pc, idx, planvars, outvars, scratchvars, work, started,
                 tl_errors, result, histvars, last_size>>

\* DecodeBatch, lines 147-149: the handler of the unit.  It handles a
\* DALIException only; what it throws, and any other exception of the unit,
\* ends the unit and is recorded by the pool for the join.
UnitError(i, exc) ==
  IF exc = "DALIException"
  THEN Error("Decode", files_names_[i], i)
  ELSE Error(exc, NoLabel, i)

CatchUnit(w) ==
  /\ worker[w].pc = "catch"
  /\ tl_errors' = tl_errors \cup {UnitError(worker[w].unit, worker[w].exc)}
  /\ worker' = [worker EXCEPT ![w] = IdleWorker]
  /\ UNCHANGED <<cfgvars, wsvars, pc, idx, planvars, outvars, scratchvars, work, started,
                 result, histvars, last_size>>

\* One batch call on the operator as constructed
Next ==
  \/ SetupImpl
  \/ SetupDecoders
  \/ SetupOpen
  \/ SetupFinish
  \/ RunImpl
  \/ AddWork
  \/ RunAll
  \/ Join
  \/ \E w \in Threads : DecodeSample(w)
  \/ \E w \in Threads : DecodeAudio(w)
  \/ \E w \in Threads : WriteSampleRate(w)
  \/ \E w \in Threads : CatchUnit(w)

Spec == Init /\ [][Next]_vars

\* Batch call after batch call on the same operator
NextSeq ==
  \/ Next
  \/ Return

SpecSeq == Init /\ [][NextSeq]_vars

\* The pool's threads run whatever is queued or started, and the calling
\* thread, blocked in RunAll, resumes once the pool is idle.
Fairness ==
  /\ \A w \in Threads :
       /\ WF_vars(DecodeSample(w))
       /\ WF_vars(DecodeAudio(w))
       /\ WF_vars(WriteSampleRate(w))
       /\ WF_vars(CatchUnit(w))
  /\ WF_vars(Join)

SpecFair == Spec /\ Fairness

\* ================================================================ claims
UnitStarted == \E i \in DOMAIN ran : ran[i] > 0

PlannedShape(i) ==
  DecodedAudioShape(Open(input[i]),
                    IF use_resampling_ THEN target_sample_rates_[i] ELSE -1, downmix_)

PlanComplete ==
  /\ pc \in {"join", "done"}
  /\ Len(output_desc) = 2
  /\ Len(output_desc[1].shape) = batch_size
  /\ Len(output_desc[2].shape) = batch_size
  /\ \A i \in 1..batch_size :
       /\ opened[i] >= 1
       /\ sample_meta_[i] = Open(input[i])
       /\ output_desc[1].shape[i] = PlannedShape(i)
       /\ output_desc[2].shape[i] = <<1>>

\* C1: Plan strictly precedes Execute.  Whenever a unit of work has started,
\* SetupImpl has finished: every sample of the batch has its metadata and its
\* output shape; and from the start of the first unit to the end of the call
\* no planned output shape changes.
C1_PlanPrecedesExecute ==
  /\ [](UnitStarted => PlanComplete)
  /\ [][(UnitStarted /\ pc # "done") => output_desc' = output_desc]_vars

C1_Witness ==
  /\ batch_size = 2
  /\ \E w \in Threads : worker[w].pc = "audio"
  /\ work # {}

\* C2: in a successful call every sample index is opened exactly once and has
\* exactly one unit submitted and run; at no time is an index opened,
\* submitted or run twice.
C2_ExactlyOnce ==
  /\ \A i \in DOMAIN opened : opened[i] <= 1 /\ submitted[i] <= 1 /\ ran[i] <= 1
  /\ (pc = "done" /\ result = Ok) =>
       \A i \in 1..batch_size : opened[i] = 1 /\ submitted[i] = 1 /\ ran[i] = 1

C2_Witness ==
  /\ pc = "done" /\ result = Ok
  /\ batch_size = 2
  /\ \A i \in 1..2 : opened[i] = 1 /\ submitted[i] = 1 /\ ran[i] = 1

\* C3: a unit that is using scratch memory uses the slot of the worker that
\* runs it, and no two units that are using scratch memory at the same time
\* use the same slot.
UsesScratch(w) == worker[w].pc = "audio"

C3_ScratchSlotExclusive ==
  /\ \A w \in Threads : UsesScratch(w) => worker[w].slot = w
  /\ \A w1, w2 \in Threads :
       (w1 # w2 /\ UsesScratch(w1) /\ UsesScratch(w2)) => worker[w1].slot # worker[w2].slot

C3_Witness ==
  /\ \A w \in {1, 2} : UsesScratch(w)
  /\ worker[1].unit # worker[2].unit

\* C4: the unit of sample i writes decoded-output region i and sampling-rate
\* slot i only: every written location of either output was written by the
\* unit of its own index, and distinct samples are handed distinct locations.
C4_DisjointOutputRegions ==
  /\ \A k \in DOMAIN decoded_output : decoded_output[k].by \in {0, k}
  /\ \A k \in DOMAIN sample_rate_output : sample_rate_output[k].by \in {0, k}
  /\ \A i, j \in DOMAIN decoded_output :
       i # j => OutputRegion(i) # OutputRegion(j) /\ RateSlot(i) # RateSlot(j)

C4_Witness ==
  /\ Len(decoded_output) = 2
  /\ \A k \in 1..2 : decoded_output[k].by = k /\ sample_rate_output[k].by = k

\* C5: a batch with a sample that is not one-dimensional, or whose element
\* type is not uint8, fails in SetupImpl before a decoder is created or
\* opened and before a unit is submitted: no Open, no decode, no output write.
InvalidInput ==
  pc # "idle" /\ ((\E k \in 1..batch_size : input[k].ndim # 1) \/ input_type # "UINT8")

C5_InvalidInputFailsFirst ==
  InvalidInput =>
    /\ pc = "done"
    /\ result.what \in {"InputShape", "InputType"}
    /\ created = 0
    /\ \A k \in 1..batch_size : opened[k] = 0 /\ submitted[k] = 0 /\ ran[k] = 0
    /\ decoded_output = <<>> /\ sample_rate_output = <<>>
    /\ work = {}

C5_Witness ==
  /\ pc = "done"
  /\ result.what = "InputType"
  /\ batch_size = 2
  /\ \A k \in 1..2 : input[k].ndim = 1

\* C6: a requested output type outside {INT16, INT32, FLOAT} makes SetupImpl
\* fail with the unsupported-type error before a sample is opened, whatever
\* downmix and sample_rate are; RunImpl / DecodeBatch is never reached.
C6_UnsupportedTypeFailsInPlan ==
  (pc # "idle" /\ output_type_ \notin SupportedTypes) =>
    /\ \A k \in 1..batch_size : opened[k] = 0
    /\ pc \notin {"run", "add_work", "join"}
    /\ (pc = "done" /\ ValidationError(input, input_type) = "none")
         => result.what = "UnsupportedType"

\* C7: no partial success.  When the call is over it has succeeded exactly
\* when the unit of every sample ran and raised no error; and when it has
\* succeeded, the decoded region and the sampling-rate slot of every sample
\* have been written.
AllUnitsSucceeded == \A i \in 1..batch_size : ran[i] >= 1 /\ i \notin failed

C7_NoPartialSuccess ==
  pc = "done" =>
    /\ (result = Ok) <=> AllUnitsSucceeded
    /\ (result = Ok) =>
         /\ Len(decoded_output) = batch_size
         /\ Len(sample_rate_output) = batch_size
         /\ \A i \in 1..batch_size :
              decoded_output[i] # Unwritten /\ sample_rate_output[i] # Unwritten

C7_Witness ==
  /\ pc = "done"
  /\ result.what = "Decode"
  /\ \E i \in failed : \E j \in 1..batch_size :
       /\ j \notin failed
       /\ decoded_output[j].by = j
       /\ sample_rate_output[j].by = j

\* C8: every error raised inside the unit of sample i is surfaced at the join
\* with the source label of sample i: an error of Execute never has no label
\* and never has the label of another sample.
ExecuteError(e) == e.origin # 0 /\ e.what # "Open"

C8_ExecuteErrorsLabelled ==
  /\ \A e \in tl_errors : e.label = input[e.origin].label
  /\ (pc = "done" /\ ExecuteError(result)) => result.label = input[result.origin].label

\* C9: a batch in which sample k is corrupt (header rejected by Open, or
\* payload rejected by Decode) fails with a decode error that names the
\* source label of sample k; a batch of valid samples succeeds afterwards.
Corrupt(sample) == ~sample.header_ok \/ ~sample.payload_ok
SupportedConfig == output_type_ \in SupportedTypes

C9_CorruptSampleNamed ==
  (pc = "done" /\ SupportedConfig /\ ValidationError(input, input_type) = "none") =>
    /\ (\E k \in 1..batch_size : Corrupt(input[k])) =>
         \E k \in 1..batch_size : Corrupt(input[k]) /\ result.label = input[k].label
    /\ (\A k \in 1..batch_size : ~Corrupt(input[k])) =>
         (result = Ok \/ result.what = "bad_alloc")

\* C10: after a successful call the sampling-rate output of sample i is its
\* target rate when resampling was requested and the target differs from the
\* native rate, and its native rate otherwise.
ExpectedRate(i) ==
  IF use_resampling_ /\ target_sample_rates_[i] # input[i].sample_rate
  THEN target_sample_rates_[i]
  ELSE input[i].sample_rate

Runs(w, i) == worker[w].pc \in {"audio", "rate", "catch"} /\ worker[w].unit = i

\* Entry i of the per-sample target array is 0
ZeroTarget(i) == use_resampling_ /\ target_sample_rates_[i] = 0

\* C11: a 0 entry of the per-sample target array means no resampling for that
\* sample: its unit computes should_resample = false and asks for no resample
\* scratch, and after a successful call its reported rate is its native rate;
\* samples of the same batch with a non-zero target that differs from their
\* native rate are resampled.
C11_ZeroTargetMeansNative ==
  \A i \in 1..batch_size :
    /\ \A w \in Threads :
         Runs(w, i) =>
           /\ ZeroTarget(i) => (~worker[w].resample /\ worker[w].res_sz = 0)
           /\ (use_resampling_ /\ target_sample_rates_[i] > 0
                 /\ target_sample_rates_[i] # input[i].sample_rate) => worker[w].resample
    /\ (pc = "done" /\ result = Ok /\ ZeroTarget(i)) =>
         sample_rate_output[i].val = input[i].sample_rate

\* SetupImpl has returned true and the batch call has not returned yet
Planned == pc \in {"run", "add_work", "join"}

\* C12: once the plan of a batch is made, whatever the size of the batch and
\* of the batch before it, there are exactly two output descriptors, each
\* holds as many samples as the input batch, and every entry of the
\* sampling-rate output has shape [1].
C12_TwoOutputsOfBatchSize ==
  Planned =>
    /\ Len(output_desc) = 2
    /\ Len(output_desc[1].shape) = batch_size
    /\ Len(output_desc[2].shape) = batch_size
    /\ \A i \in 1..batch_size : output_desc[2].shape[i] = <<1>>

C12_Witness ==
  /\ pc = "run"
  /\ last_size = MaxBatch /\ batch_size = 1
  /\ Len(output_desc) = 2
  /\ Len(output_desc[1].shape) = 1 /\ output_desc[2].shape = <<(<<1>>)>>

\* The three conditions of sample i, taken from the encoded input itself
NeedsResample(i) ==
  (IF use_resampling_ THEN target_sample_rates_[i] ELSE input[i].sample_rate)
    # input[i].sample_rate
NeedsDownmix(i) == input[i].channels > 1 /\ downmix_
NeedsConvert == decode_type_ # output_type_

\* C13: the decode scratch a unit asks for is 0 elements exactly when the
\* sample needs no resampling, no downmix and no conversion, and it is
\* native_length * channels elements when at least one of the three is needed.
C13_DecodeScratchRequest ==
  \A w \in Threads : \A i \in 1..batch_size :
    Runs(w, i) =>
      /\ (worker[w].dec_sz = 0) <=>
           (~NeedsResample(i) /\ ~NeedsDownmix(i) /\ ~NeedsConvert)
      /\ (NeedsResample(i) \/ NeedsDownmix(i) \/ NeedsConvert) =>
           worker[w].dec_sz = input[i].length * input[i].channels

C13_Witness ==
  \E w, v \in Threads : \E i, j \in 1..batch_size :
    /\ Runs(w, i) /\ Runs(v, j)
    /\ ~NeedsResample(i) /\ ~NeedsDownmix(i) /\ ~NeedsConvert
    /\ worker[w].dec_sz = 0
    /\ NeedsResample(j)
    /\ worker[v].dec_sz = input[j].length * input[j].channels

\* The planned number of frames of sample i and its channels after the mix
OutputLength(i) == output_desc[1].shape[i][1]
OutputChannels(i) == IF NeedsDownmix(i) THEN 1 ELSE input[i].channels

\* C14 as stated: the resample scratch a unit asks for is
\* output_length * output_channels floats when the sample is resampled,
\* output_length being the planned length, and 0 when it is not resampled.
C14_ResampleScratchOutputLength ==
  \A w \in Threads : \A i \in 1..batch_size :
    Runs(w, i) =>
      worker[w].res_sz =
        IF NeedsResample(i) THEN OutputLength(i) * OutputChannels(i) ELSE 0

\* C14 amended: the resample scratch a unit asks for is
\* native_length * output_channels floats when the sample is resampled (it
\* holds the input of the resampling kernel), and 0 when it is not resampled.
C14_ResampleScratchNativeLength ==
  \A w \in Threads : \A i \in 1..batch_size :
    Runs(w, i) =>
      worker[w].res_sz =
        IF NeedsResample(i) THEN input[i].length * OutputChannels(i) ELSE 0

C14_Witness ==
  \E w \in Threads : \E i \in 1..batch_size :
    /\ Runs(w, i) /\ NeedsResample(i) /\ NeedsDownmix(i)
    /\ OutputLength(i) # input[i].length
    /\ worker[w].res_sz = input[i].length
    /\ \E v \in Threads : \E j \in 1..batch_size :
         Runs(v, j) /\ ~NeedsResample(j) /\ worker[v].res_sz = 0

\* While a unit decodes, the buffers of its slot cover what it asked for
ScratchCovers(w) ==
  /\ scratch_decoder_[worker[w].slot] >= worker[w].dec_sz * SizeOf(decode_type_)
  /\ scratch_resampler_[worker[w].slot] >= worker[w].res_sz

\* C15 as stated: a scratch slot never shrinks: in every step, within a batch
\* and from batch to batch, the size of each decode and each resample scratch
\* buffer stays or grows, and while a unit decodes, both buffers of its slot
\* are at least as large as the unit's requirement.
C15_ScratchNeverShrinks ==
  [][/\ \A s \in DOMAIN scratch_decoder_ : scratch_decoder_'[s] >= scratch_decoder_[s]
     /\ \A s \in DOMAIN scratch_resampler_ : scratch_resampler_'[s] >= scratch_resampler_[s]
     /\ \A w \in Threads : UsesScratch(w) => ScratchCovers(w)]_vars

\* C15 amended: every unit resizes both buffers of its worker's slot to
\* exactly its own requirement, so a size can decrease from one unit to the
\* next; while a unit decodes, both buffers of its slot are at least as large
\* as the unit's requirement.
C15_ScratchFitsRunningUnit ==
  \A w \in Threads :
    UsesScratch(w) =>
      /\ ScratchCovers(w)
      /\ scratch_decoder_[worker[w].slot] = worker[w].dec_sz * SizeOf(decode_type_)
      /\ scratch_resampler_[worker[w].slot] = worker[w].res_sz

C15_Witness ==
  /\ last_size > 0
  /\ \E w \in Threads :
       /\ UsesScratch(w)
       /\ worker[w].dec_sz = 0 /\ worker[w].res_sz = 0
       /\ scratch_decoder_[worker[w].slot] = 0
       /\ \E j \in 1..batch_size : j # worker[w].unit /\ ran[j] = 1 /\ NeedsResample(j)
       /\ \A v \in Threads \ {w} : worker[v].pc = "idle" /\ scratch_decoder_[v] = 0

\* From the submission of the first unit until the join has returned
Executing == pc \in {"add_work", "join"} /\ \E i \in DOMAIN submitted : submitted[i] > 0

\* C16: the plan is read-only during Execute: from the submission of the
\* first unit until the join returns, no step changes sample_meta_,
\* target_sample_rates_, files_names_, decode_type_ or a planned output
\* shape, and what a running unit has taken from the plan is the entry of its
\* own sample index.
C16_PlanReadOnlyInExecute ==
  /\ [][Executing =>
          /\ sample_meta_' = sample_meta_
          /\ target_sample_rates_' = target_sample_rates_
          /\ files_names_' = files_names_
          /\ decode_type_' = decode_type_
          /\ output_desc' = output_desc
          /\ shape_data' = shape_data /\ shape_rate' = shape_rate]_vars
  /\ [](\A w \in Threads : \A i \in 1..batch_size :
          Runs(w, i) =>
            /\ worker[w].resample = NeedsResample(i)
            /\ worker[w].exc = "DALIException" => ~input[i].payload_ok)

C16_Witness ==
  /\ pc = "done" /\ result = Ok /\ batch_size = MaxBatch
  /\ \A i \in 1..batch_size :
       /\ ran[i] = 1 /\ sample_meta_[i] = Open(input[i])
       /\ files_names_[i] = input[i].label
       /\ sample_rate_output[i].by = i
  /\ \E i \in 1..batch_size : NeedsResample(i) /\ target_sample_rates_[i] > 0

\* C17: the join is the only synchronisation point and nothing is cancelled:
\* DecodeBatch waits only after it has submitted every unit of the batch, it
\* has not returned while a unit is queued or running, after it returned
\* every submitted unit has run to its end (its rate written or its failure
\* recorded) even when another unit failed, and, the pool being fair, a batch
\* call that waits in the join eventually returns.
C17_JoinWaitsForAll ==
  /\ [](pc = "join" => \A i \in 1..batch_size : submitted[i] = 1)
  /\ [](pc = "done" => (work = {} /\ \A w \in Threads : worker[w].pc = "idle"))
  /\ []((pc = "done" /\ \E i \in DOMAIN submitted : submitted[i] > 0) =>
          \A i \in 1..batch_size :
            ran[i] = 1 /\ (i \in failed \/ sample_rate_output[i].by = i))
  /\ (pc = "join") ~> (pc = "done")

C17_Witness ==
  /\ pc = "done" /\ batch_size = MaxBatch
  /\ \E i, j \in 1..batch_size :
       /\ i \in failed /\ sample_rate_output[i] = Unwritten
       /\ j \notin failed /\ ran[j] = 1 /\ sample_rate_output[j].by = j

\* C18: the rate slot of sample i is written only after the decode of the
\* same unit ended without error: a written rate slot comes with the decoded
\* region of the same sample, written by the same unit, and the rate slot of
\* a unit that failed, in its resizes or in DecodeAudio, stays unwritten.
C18_RateAfterDecode ==
  \A i \in 1..Len(sample_rate_output) :
    /\ sample_rate_output[i] # Unwritten =>
         /\ decoded_output[i].by = sample_rate_output[i].by
         /\ i \notin failed
    /\ i \in failed => sample_rate_output[i] = Unwritten
    /\ \A w \in Threads :
         (worker[w].unit = i /\ worker[w].pc \in {"audio", "catch"}) =>
           sample_rate_output[i] = Unwritten

C18_Witness ==
  \E i, j \in 1..Len(sample_rate_output) :
    /\ i \in failed /\ sample_rate_output[i] = Unwritten
    /\ \E w \in Threads :
         worker[w].unit = i /\ worker[w].pc = "catch" /\ worker[w].exc = "DALIException"
    /\ sample_rate_output[j].by = j /\ decoded_output[j].by = j

\* C19: the plan and the unit agree on whether sample i is resampled: when
\* the unit computes should_resample = true the planned length is the length
\* resampled to the sample's target, when it computes false the planned
\* length is the native length, and the frames the unit produces are as many
\* as the planned length of its output region.
C19_PlanAndUnitAgree ==
  \A i \in 1..batch_size :
    /\ \A w \in Threads :
         Runs(w, i) =>
           OutputLength(i) =
             IF worker[w].resample
             THEN ResampledLength(input[i].length, target_sample_rates_[i],
                                  input[i].sample_rate)
             ELSE input[i].length
    /\ (Planned /\ decoded_output[i] # Unwritten) =>
         decoded_output[i].val = OutputLength(i)

\* C20: no plan state of an earlier batch is left when Execute starts: over
\* any sequence of batch calls of varying size, from the return of SetupImpl
\* to the return of the join, decoders_, sample_meta_ and files_names_ have
\* exactly batch_size entries and entry i is the decoder of the current
\* decode_type_ opened on input i of the current batch, the metadata of that
\* input and its source label.
C20_NoStalePlanState ==
  Planned =>
    /\ Len(decoders_) = batch_size
    /\ Len(sample_meta_) = batch_size
    /\ Len(files_names_) = batch_size
    /\ decode_type_ = DecodeType
    /\ \A i \in 1..batch_size :
         /\ decoders_[i] = [type |-> decode_type_, opened |-> input[i].label]
         /\ sample_meta_[i] = Open(input[i])
         /\ files_names_[i] = input[i].label

C20_Witness ==
  /\ pc = "join"
  /\ last_size = MaxBatch /\ batch_size = 1
  /\ Len(sample_meta_) = 1 /\ Len(decoders_) = 1 /\ Len(files_names_) = 1
  /\ \E w \in Threads :
       /\ Runs(w, 1)
       /\ sample_meta_[1] = Open(input[1])
       /\ decoders_[1].opened = input[1].label

====
